---- MODULE Spec2Model ----
(***************************************************************************)
(* Provenance subsystem of agentlab: the hook stream validator             *)
(* (agentlab_runner/hook_collector.py), the hash-chained event recorder    *)
(* (agentlab_runner/event_recorder.py) and the content-addressed artifact  *)
(* store (agentlab_core/artifact_store.py), with the checkpoint manager    *)
(* (agentlab_runner/checkpoints.py) on top of the store.                   *)
(*                                                                         *)
(* Python's Optional[T] is a sequence of length <= 1: None is <<>> and a   *)
(* present value x is <<x>>.                                               *)
(***************************************************************************)
EXTENDS Integers, Sequences, FiniteSets, TLC

\* ------------------------------------------------------------------ bounds
\* Lines of one hook stream; seq numbers range over 1..MaxLines as well.
MaxLines == 4
\* Largest step_index a stream carries.
MaxStep == 2
\* Lines one recorder writes to its file: record() calls that get that far.
MaxRecords == 3
\* put_bytes and put_file calls started on one store root.
MaxPuts == 3
\* Lines a recorder's file object holds after flushes that failed.
MaxUnflushed == 1
\* save calls on one CheckpointManager.
MaxSaves == 2
\* Tasks in the dataset of a run.
MaxTasks == 2
\* design.replications of an experiment.
MaxReplications == 2

None == <<>>
Some(x) == <<x>>

\* ------------------------------------------------------- hook stream input
STEP_START == "agent_step_start"
STEP_END == "agent_step_end"
CONTROL_ACK == "control_ack"
MODEL_CALL_END == "model_call_end"
HEADER == "hooks.header"

StepEventTypes == {STEP_START, STEP_END, CONTROL_ACK}
CausalEventTypes == {MODEL_CALL_END, "tool_call_end", "error"}

NoHeaderFields ==
    [hooks_schema_version |-> None, step_semantics |-> None, integration_level |-> None]

\* One line of the stream file.  kind is what json.loads makes of the
\* stripped text: "blank" (nothing left after strip), "invalid_json"
\* (json.loads raises), "object" (a JSON object).  schema_ok abstracts every
\* field of the object the validator's own code never reads.
MkLine(kind, event_type, seq, step_index, action_observed, schema_ok, hdr) ==
    [kind |-> kind, event_type |-> event_type, seq |-> seq,
     step_index |-> step_index, action_observed |-> action_observed,
     schema_ok |-> schema_ok, header |-> hdr]

BlankLine == MkLine("blank", "", None, None, "", FALSE, NoHeaderFields)
InvalidJsonLine == MkLine("invalid_json", "", None, None, "", FALSE, NoHeaderFields)

SeqValues == {Some(n) : n \in 1..MaxLines}
StepValues == {Some(k) : k \in 0..MaxStep}

\* A header echoes any subset of the three manifest keys; each echoed value is
\* the manifest's (a) or another one (b).
HeaderValues(a, b) == {None, Some(a), Some(b)}

HeaderLines ==
    { MkLine("object", HEADER, Some(1), None, "", TRUE,
             [hooks_schema_version |-> v, step_semantics |-> s, integration_level |-> i]) :
        v \in HeaderValues("hook_events_v1", ""),
        s \in HeaderValues("decision_cycle", ""),
        i \in HeaderValues("cli_events", "cli_basic") }
    \cup
    { MkLine("object", HEADER, None, None, "", TRUE,
             [NoHeaderFields EXCEPT !.integration_level = i]) :
        i \in HeaderValues("cli_events", "cli_basic") }

StepEventLines ==
    { MkLine("object", t, sq, st, "", TRUE, NoHeaderFields) :
        t \in {STEP_START, STEP_END}, sq \in SeqValues, st \in StepValues }
    \cup
    { MkLine("object", CONTROL_ACK, sq, st, a, TRUE, NoHeaderFields) :
        sq \in SeqValues, st \in StepValues, a \in {"continue", "stop"} }

\* Each causal event without a step_index, and model_call_end with one.
CausalEventLines ==
    { MkLine("object", t, sq, None, "", TRUE, NoHeaderFields) :
        t \in CausalEventTypes, sq \in SeqValues }
    \cup
    { MkLine("object", MODEL_CALL_END, sq, Some(0), "", TRUE, NoHeaderFields) :
        sq \in SeqValues }

\* Objects the schema refuses: a shape it would pass but for a field that is
\* not modelled (schema_ok = FALSE), an event without seq, a step event
\* without step_index.
SchemaInvalidLines ==
    { MkLine("object", t, Some(1), Some(0), "", FALSE, NoHeaderFields) :
        t \in {STEP_START, MODEL_CALL_END} }
    \cup
    { MkLine("object", t, None, Some(0), "", TRUE, NoHeaderFields) :
        t \in {STEP_START, MODEL_CALL_END} }
    \cup
    { MkLine("object", t, Some(1), None, "", TRUE, NoHeaderFields) :
        t \in StepEventTypes }

Lines ==
    {BlankLine, InvalidJsonLine} \cup HeaderLines \cup StepEventLines
        \cup CausalEventLines \cup SchemaInvalidLines

\* The HarnessManifest properties collect() reads; the values are those of the
\* manifest the tests load.
Manifests ==
    { [hooks_schema_version |-> "hook_events_v1", step_semantics |-> "decision_cycle",
       integration_level |-> "cli_events"] }

\* ------------------------------------------------------------ error values
MSG_JSON == "Invalid JSON in hook stream"
MSG_HEADER == "Header does not match harness_manifest.json"
MSG_SCHEMA == "Schema validation failed for hook event"
MSG_SEQ == "Hook seq must be monotonically increasing"
MSG_PENDING == "Missing control_ack before next step start"
MSG_INCREMENT == "step_index must increment by 1"
MSG_STOP == "Stop observed but step continued"
MSG_END == "agent_step_end must match current step_index"
MSG_ACK == "control_ack must match latest agent_step_end"
MSG_CAUSAL == "Causal events must include step_index when steps are used"
MSG_EOF == "Missing control_ack after agent_step_end"

\* HookValidationError: every keyword defaults to None.  details keeps the
\* values the f-string interpolates, in order.
HookValidationError(message, line_num, seq, event_type, raw_line, details) ==
    [message |-> message, line_num |-> line_num, seq |-> seq,
     event_type |-> event_type, raw_line |-> raw_line, details |-> details]

NoError == HookValidationError("", None, None, None, None, <<>>)

VARIABLES
    manifest,             \* the HarnessManifest handed to collect
    status,               \* "reading" | "accepted" | "rejected"
    line_num,             \* enumerate(f, start=1): lines read so far
    events,               \* accepted objects, in order
    last_seq,
    seen_step,
    current_step,
    pending_control_ack,
    stop_observed,
    turn_count,
    err                   \* the HookValidationError raised, NoError otherwise

hookVars == <<manifest, status, line_num, events, last_seq, seen_step, current_step,
              pending_control_ack, stop_observed, turn_count, err>>

\* EventRecorder and what it writes.
VARIABLES
    prev_hash,            \* self.prev_hash
    fh_closed,            \* self._fh.closed
    events_file,          \* the lines of events_path, oldest first
    fh_buffer,            \* lines written to self._fh and not yet flushed
    returned,             \* what record() has returned on this recorder, in order
    head_file             \* the text of head_path, None until finalize writes it

recVars == <<prev_hash, fh_closed, events_file, fh_buffer, returned, head_file>>

\* The artifact store root and the processes that use it.
VARIABLES
    fs,                   \* <root>/sha256: the directory, its names, the files
    proc,                 \* each writer's position inside put_bytes or put_file
    puts,                 \* the put calls that have ended, in order
    calls,                \* put calls started so far
    read                  \* what the last get_bytes or has call gave

storeVars == <<fs, proc, puts, calls, read>>

\* CheckpointManager, the surface directories and the record files.
VARIABLES
    disk,                 \* each surface path: None, or the files of the directory
    records,              \* checkpoint_<label>.json, None while there is no such file
    at_save,              \* what disk was when the last save of each label returned
    saves,                \* save calls so far
    restored,             \* what a restore call gave, while nothing has run since
    outside,              \* files restore wrote at paths under no directory of disk
    saved                 \* what a save call gave, while nothing has run since

ckptVars == <<disk, records, at_save, saves, restored, outside, saved>>

\* One call of run_experiment_spec.
VARIABLES
    experiment,           \* the document and the harness it names, None before the call
    run_pc,               \* where the call is; "failed" once an exception has left it
    inspected,            \* the fields resolve_experiment_config has read, in order
    io,                   \* the files read and written since the call, in order
    run_dir,              \* None until the run directory is made; then its digest file
    tasks,                \* the tasks load_jsonl returned
    trials,               \* the trials started, in order
    run_err,              \* the exception that left the call, "" for none
    attestation           \* attestation.json, None until it is written

runVars == <<experiment, run_pc, inspected, io, run_dir, tasks, trials, run_err, attestation>>

vars == <<hookVars, recVars, storeVars, ckptVars, runVars>>

\* ------------------------------------------------------ collect(): locals
\* The locals of collect() as one record, so that the loop body reads as the
\* sequence of statements it is.
Frame ==
    [status |-> status, events |-> events, last_seq |-> last_seq,
     seen_step |-> seen_step, current_step |-> current_step,
     pending_control_ack |-> pending_control_ack,
     stop_observed |-> stop_observed, turn_count |-> turn_count, err |-> err]

InitialFrame ==
    [status |-> "reading", events |-> <<>>, last_seq |-> None,
     seen_step |-> FALSE, current_step |-> None, pending_control_ack |-> None,
     stop_observed |-> FALSE, turn_count |-> 0, err |-> NoError]

\* raise HookValidationError(...): collect() is left, its locals are gone and
\* the exception is all the caller gets.
Raise(e) == [InitialFrame EXCEPT !.status = "rejected", !.err = e]

\* return HookValidationResult(events=events, turn_count=turn_count)
Return(f) ==
    [InitialFrame EXCEPT !.status = "accepted", !.events = f.events,
                         !.turn_count = f.turn_count]

\* A header check that forgets integration_level.
HeaderMismatchTwoKeys(header, m) ==
    \E key \in {"hooks_schema_version", "step_semantics"} :
        header[key] # None /\ header[key] # Some(m[key])

\* _validate_header raises when a key the header carries differs from the
\* manifest's value.
HeaderMismatch(header, m) ==
    \E key \in {"hooks_schema_version", "step_semantics", "integration_level"} :
        header[key] # None /\ header[key] # Some(m[key])

\* registry.validate("hook_events_v1.jsonschema", obj) passes.  The schema
\* document is an opaque capability: of the fields collect() reads it is taken
\* to require an integer seq on every event and an integer step_index on the
\* three step events; everything else it checks is folded into schema_ok.
SchemaValid(obj) ==
    /\ obj.schema_ok
    /\ obj.seq # None
    /\ obj.event_type \in StepEventTypes => obj.step_index # None

\* A seq check that lets an equal seq through.
SeqDecreasing(prev, seq) == prev # None /\ seq[1] < prev[1]

\* last_seq is not None and seq <= last_seq
SeqNotIncreasing(prev, seq) == prev # None /\ seq[1] <= prev[1]

\* A step check that only refuses a step that does not advance.
NotLaterStep(cur, step_index) == step_index[1] <= cur[1]

\* step_index != current_step + 1
NotNextStep(cur, step_index) == step_index # Some(cur[1] + 1)

\* An end check that only asks for a started step.
EndWithoutStart(cur, step_index) == cur = None

\* current_step is None or step_index != current_step
EndMismatch(cur, step_index) == cur = None \/ step_index # cur

\* An ack check that lets an ack through when none is pending.
AckForOtherStep(pending, step_index) == pending # None /\ step_index # pending

\* pending_control_ack is None or step_index != pending_control_ack
AckMismatch(pending, step_index) == pending = None \/ step_index # pending

\* A causal check that covers model_call_end alone.
ModelCallWithoutStep(seen, event_type, step_index) ==
    seen /\ event_type = MODEL_CALL_END /\ step_index = None

\* seen_step and event_type in (...) and step_index is None
CausalWithoutStep(seen, event_type, step_index) ==
    seen /\ event_type \in CausalEventTypes /\ step_index = None

\* The context every per-line raise passes: line_num, seq, event_type, raw_line.
LineError(message, n, obj, details) ==
    HookValidationError(message, Some(n), obj.seq, Some(obj.event_type), Some(obj), details)

\* A start handler without the stop check.
CheckStopSkipped(f, n, obj) == f

\* if stop_observed: raise (the last statement of the agent_step_start branch)
CheckStop(f, n, obj) ==
    IF f.stop_observed THEN Raise(LineError(MSG_STOP, n, obj, <<>>)) ELSE f

\* if event_type == "agent_step_start": ...
OnStepStart(f, n, obj) ==
    IF obj.event_type # STEP_START THEN f
    ELSE LET f1 == [f EXCEPT !.seen_step = TRUE] IN
         IF f1.pending_control_ack # None
         THEN Raise(LineError(MSG_PENDING, n, obj, <<f1.pending_control_ack>>))
         ELSE IF f1.current_step # None /\ NotNextStep(f1.current_step, obj.step_index)
         THEN Raise(LineError(MSG_INCREMENT, n, obj,
                              <<Some(f1.current_step[1] + 1), obj.step_index>>))
         ELSE CheckStop([f1 EXCEPT !.current_step = obj.step_index], n, obj)

\* if event_type == "agent_step_end": ...
OnStepEnd(f, n, obj) ==
    IF obj.event_type # STEP_END THEN f
    ELSE LET f1 == [f EXCEPT !.seen_step = TRUE] IN
         IF EndMismatch(f1.current_step, obj.step_index)
         THEN Raise(LineError(MSG_END, n, obj, <<f1.current_step, obj.step_index>>))
         ELSE [f1 EXCEPT !.pending_control_ack = obj.step_index]

\* if event_type == "control_ack": ...
OnControlAck(f, n, obj) ==
    IF obj.event_type # CONTROL_ACK THEN f
    ELSE IF AckMismatch(f.pending_control_ack, obj.step_index)
         THEN Raise(LineError(MSG_ACK, n, obj, <<f.pending_control_ack, obj.step_index>>))
         ELSE [f EXCEPT !.pending_control_ack = None,
                        !.stop_observed = @ \/ obj.action_observed = "stop"]

\* if event_type == "model_call_end": turn_count += 1
OnModelCallEnd(f, obj) ==
    IF obj.event_type = MODEL_CALL_END THEN [f EXCEPT !.turn_count = @ + 1] ELSE f

\* if seen_step and event_type in (...): if step_index is None: raise
OnCausal(f, n, obj) ==
    IF CausalWithoutStep(f.seen_step, obj.event_type, obj.step_index)
    THEN Raise(LineError(MSG_CAUSAL, n, obj, <<>>))
    ELSE f

\* From the seq check to events.append(obj); a statement runs only while no
\* raise has left the loop body.
ValidateEvent(f, n, obj) ==
    IF SeqNotIncreasing(f.last_seq, obj.seq)
    THEN Raise(LineError(MSG_SEQ, n, obj, <<f.last_seq, obj.seq>>))
    ELSE LET f1 == [f EXCEPT !.last_seq = obj.seq]
             f2 == OnStepStart(f1, n, obj)
             f3 == IF f2.status = "rejected" THEN f2 ELSE OnStepEnd(f2, n, obj)
             f4 == IF f3.status = "rejected" THEN f3 ELSE OnControlAck(f3, n, obj)
             f5 == IF f4.status = "rejected" THEN f4 ELSE OnModelCallEnd(f4, obj)
             f6 == IF f5.status = "rejected" THEN f5 ELSE OnCausal(f5, n, obj)
         IN  IF f6.status = "rejected" THEN f6
             ELSE [f6 EXCEPT !.events = Append(@, obj)]

\* One iteration of `for line_num, line in enumerate(f, start=1)`.
LoopBody(f, n, line, m) ==
    IF line.kind = "blank" THEN f
    ELSE IF line.kind = "invalid_json"
    THEN Raise(HookValidationError(MSG_JSON, Some(n), None, None, Some(line), <<>>))
    ELSE IF line.event_type = HEADER
    THEN IF HeaderMismatch(line.header, m)
         THEN Raise(LineError(MSG_HEADER, n, line, <<>>))
         ELSE f
    ELSE IF ~SchemaValid(line)
    THEN Raise(LineError(MSG_SCHEMA, n, line, <<>>))
    ELSE ValidateEvent(f, n, line)

\* An end of stream that returns whatever is pending.
AfterLoopNoCheck(f) == Return(f)

\* After the loop: the pending acknowledgement check, then the return.
AfterLoop(f) ==
    IF f.pending_control_ack # None
    THEN Raise(HookValidationError(MSG_EOF, None, None, None, None,
                                   <<f.pending_control_ack>>))
    ELSE Return(f)

SetFrame(f) ==
    /\ status' = f.status
    /\ events' = f.events
    /\ last_seq' = f.last_seq
    /\ seen_step' = f.seen_step
    /\ current_step' = f.current_step
    /\ pending_control_ack' = f.pending_control_ack
    /\ stop_observed' = f.stop_observed
    /\ turn_count' = f.turn_count
    /\ err' = f.err

\* ----------------------------------------------------------------- actions
HookInit ==
    /\ manifest \in Manifests
    /\ line_num = 0
    /\ status = "reading"
    /\ events = <<>>
    /\ last_seq = None
    /\ seen_step = FALSE
    /\ current_step = None
    /\ pending_control_ack = None
    /\ stop_observed = FALSE
    /\ turn_count = 0
    /\ err = NoError

\* collect() reads the next line of the file and runs the loop body on it.
ReadLine ==
    /\ status = "reading"
    /\ line_num < MaxLines
    /\ \E line \in Lines :
        /\ line_num' = line_num + 1
        /\ SetFrame(LoopBody(Frame, line_num + 1, line, manifest))
    /\ UNCHANGED <<manifest, recVars, storeVars, ckptVars, runVars>>

\* The file is exhausted.
EndOfStream ==
    /\ status = "reading"
    /\ SetFrame(AfterLoop(Frame))
    /\ UNCHANGED <<manifest, line_num, recVars, storeVars, ckptVars, runVars>>

\* ------------------------------------------------- hashing and canonical JSON
\* sha256_bytes as a collision-free digest: the digest of a text is the text
\* under the "sha256" tag, so two digests are equal exactly when the texts are.
sha256_bytes(data) == <<"sha256", data>>

\* "sha256:" followed by 64 zeros: the digest of no text.
GENESIS_HASH == <<"sha256">>

\* canonical_dumps: the members of the object in sorted key order
\* (event_type, hashchain.prev, hashchain.self, payload_ref, redaction, seq);
\* an absent key is None at its place.
canonical_dumps(obj) ==
    <<obj.event_type, obj.hashchain.prev, obj.hashchain.self, obj.payload_ref,
      obj.redaction, obj.seq>>

\* A digest taken with hashchain.self left in as record() set it: "".
hash_event_with_blank_self(obj) == sha256_bytes(canonical_dumps(obj))

\* copy["hashchain"].pop("self", None), then the digest of the canonical text.
hash_event_without_self(obj) ==
    sha256_bytes(canonical_dumps([obj EXCEPT !.hashchain.self = None]))

\* --------------------------------------------------------- artifact store
\* A byte string is the sequence of the chunks a writer hands to the file.
\* A path and a ref are texts: sequences of parts.
Blobs == {<<"a", "b">>}

Writers == {"w1", "w2"}

\* digest.split(":", 1)[1]: the 64 hex digits of the digest.
hex_hash(digest) == <<"hex", digest[2]>>

\* _path_for_hash: os.path.join(root, "sha256", hex_hash), below root.
\* Joining the empty name gives the directory itself.
path_for_hash(hex) == <<"sha256">> \o hex

StoreDir == <<"sha256">>

FinalPath(data) == path_for_hash(hex_hash(sha256_bytes(data)))

\* tmp_path = path + ".tmp"
TmpPath(data) == FinalPath(data) \o <<".tmp">>

\* f"artifact://sha256/{hex_hash}": the prefix, then the parts between "/".
ArtifactRef(data) == <<"artifact", hex_hash(sha256_bytes(data))>>

\* ------------------------------------------------------- surface archives
\* The files a surface directory may hold and what they may contain.
FileNames == {"file.txt", "new.txt"}
Contents == {"hello", "changed"}

\* The order in which tar.add walks the directory.
FileOrder == <<"file.txt", "new.txt">>

\* A directory: for each name its content, None for no such file.
Dirs == [FileNames -> {None} \cup {Some(c) : c \in Contents}]

\* One regular-file member of an archive: its name and its bytes.
TarMember(name, content) == name \o "=" \o content

\* _tar_path: tar.add(source_path, arcname=".") writes the member "." for the
\* directory, one member for each file in it, and the end of the archive.
\* The archive is a byte string: one chunk for each of these.
tar_path(dir) ==
    LET Present(n) == dir[n] # None
        names == SelectSeq(FileOrder, Present)
    IN  <<"./">> \o [i \in 1..Len(names) |-> TarMember(names[i], dir[names[i]][1])]
            \o <<"EOF">>

Archives == {tar_path(d) : d \in Dirs}

\* A directory with no file in it.
EmptyFiles == [n \in FileNames |-> None]

\* Member names of archives that no save made: one that climbs out of the
\* target directory, one that names a file of the directory next to it.
CraftedNames == {"../../etc/passwd", "../ws2/file.txt"}

MemberNames == FileNames \cup CraftedNames

\* An archive made by hand: file.txt of the target directory first, then
\* the member `name`.
Crafted(name) ==
    <<"./", TarMember("file.txt", "hello"), TarMember(name, "changed"), "EOF">>

\* The archives something other than save stores: the two crafted ones and
\* the bytes save gives for a directory that holds file.txt = "hello".
CraftedArchives ==
    {Crafted(n) : n \in CraftedNames} \cup {<<"./", TarMember("file.txt", "hello"), "EOF">>}

\* The names put_bytes and put_file can create under <root>/sha256.
Paths ==
    {FinalPath(b) : b \in Blobs \cup Archives \cup CraftedArchives}
        \cup {TmpPath(b) : b \in Blobs \cup CraftedArchives}

\* os.path.exists(path)
Exists(fsys, path) ==
    IF path = StoreDir THEN fsys.dir
    ELSE path \in DOMAIN fsys.names /\ fsys.names[path] # None

\* The file a handle from open(path, "wb") refers to: the file the name has,
\* or a new one.
FdOf(fsys, path) ==
    IF fsys.names[path] # None THEN fsys.names[path][1] ELSE Len(fsys.inodes) + 1

\* open(path, "wb"): truncates the file the name has, or creates one.
OpenWb(fsys, path) ==
    IF fsys.names[path] # None
    THEN [fsys EXCEPT !.inodes[fsys.names[path][1]] = <<>>]
    ELSE [fsys EXCEPT !.names[path] = Some(Len(fsys.inodes) + 1),
                      !.inodes = Append(@, <<>>)]

\* One chunk written at the handle's own offset; a file shorter than the
\* offset is filled with zero bytes up to it.
WriteAt(fsys, fd, pos, chunk) ==
    LET old == fsys.inodes[fd]
        len == IF Len(old) > pos THEN Len(old) ELSE pos + 1
    IN  [fsys EXCEPT !.inodes[fd] =
            [i \in 1..len |-> IF i = pos + 1 THEN chunk
                              ELSE IF i <= Len(old) THEN old[i] ELSE "NUL"]]

\* os.replace(src, dst) when src exists: dst names the file src named.
Replace(fsys, src, dst) ==
    [fsys EXCEPT !.names[dst] = fsys.names[src], !.names[src] = None]

\* open(path, "rb").read()
ReadFile(fsys, path) == fsys.inodes[fsys.names[path][1]]

RECURSIVE WriteFrom(_, _, _, _)
\* f.write(data) and the close: every chunk from offset pos on.
WriteFrom(fsys, fd, pos, data) ==
    IF pos >= Len(data) THEN fsys
    ELSE WriteFrom(WriteAt(fsys, fd, pos, data[pos + 1]), fd, pos + 1, data)

\* A put_bytes that returns the ref and stores nothing.
put_bytes_ref_only(fsys, data) == [fsys EXCEPT !.dir = TRUE]

\* put_bytes run by one process with no other process on the store.
put_bytes(fsys, data) ==
    LET f0 == [fsys EXCEPT !.dir = TRUE] IN
    IF Exists(f0, FinalPath(data)) THEN f0
    ELSE Replace(WriteFrom(OpenWb(f0, TmpPath(data)), FdOf(f0, TmpPath(data)), 0, data),
                 TmpPath(data), FinalPath(data))

\* What a call gives: the exception it raises ("" for none), the bytes
\* get_bytes returns, the truth value has returns.
Raised(exc) == [raised |-> exc, bytes |-> None, found |-> FALSE]
ReturnedBytes(b) == [raised |-> "", bytes |-> Some(b), found |-> FALSE]
ReturnedBool(v) == [raised |-> "", bytes |-> None, found |-> v]

\* ref.startswith("artifact://sha256/")
HasPrefix(ref) == ref[1] = "artifact"

\* ref.split("/")[-1]
LastPart(ref) == ref[Len(ref)]

\* get_bytes(ref)
get_bytes(fsys, ref) ==
    IF ~HasPrefix(ref) THEN Raised("ValueError")
    ELSE LET path == path_for_hash(LastPart(ref)) IN
         IF ~Exists(fsys, path) THEN Raised("FileNotFoundError")
         ELSE IF path = StoreDir THEN Raised("IsADirectoryError")
         ELSE ReturnedBytes(ReadFile(fsys, path))

\* has(ref)
has(fsys, ref) ==
    IF ~HasPrefix(ref) THEN ReturnedBool(FALSE)
    ELSE ReturnedBool(Exists(fsys, path_for_hash(LastPart(ref))))

\* return None
ReturnedNone == [raised |-> "", bytes |-> None, found |-> FALSE]

\* EventReplayer.get_payload(event)
get_payload(fsys, event) ==
    IF event.payload_ref = None THEN ReturnedNone
    ELSE get_bytes(fsys, event.payload_ref[1])

\* The refs a reader asks for: the ref of each blob, of a blob never put,
\* "<hex>.tmp", nothing after the prefix, "x/<hex>", and another prefix.
Refs ==
    {ArtifactRef(b) : b \in Blobs}
    \cup {ArtifactRef(<<"z">>)}
    \cup {<<"artifact", hex_hash(sha256_bytes(b)) \o <<".tmp">>>> : b \in Blobs}
    \cup {<<"artifact", <<>>>>}
    \cup {<<"artifact", <<"x">>, hex_hash(sha256_bytes(b))>> : b \in Blobs}
    \cup {<<"file", hex_hash(sha256_bytes(<<"a">>))>>}

\* alone: no other process has been inside a put call during this one.
IdleProc ==
    [pc |-> "idle", op |-> "", data |-> <<>>, fd |-> 0, pos |-> 0, wrote |-> FALSE,
     alone |-> TRUE]

NoRead == [call |-> "", ref |-> <<"">>, result |-> Raised("")]

StoreInit ==
    /\ fs = [dir |-> FALSE, names |-> [p \in Paths |-> None], inodes |-> <<>>]
    /\ proc = [w \in Writers |-> IdleProc]
    /\ puts = <<>>
    /\ calls = 0
    /\ read = NoRead

\* The entry a put call leaves when it ends.
PutEnded(w, exc, ref) ==
    [op |-> proc[w].op, data |-> proc[w].data, raised |-> exc,
     ref |-> ref, wrote |-> proc[w].wrote, alone |-> proc[w].alone]

\* A process enters put_bytes(data) or put_file(path), the file at path
\* holding data: the digest, the path, os.makedirs.
PutCall ==
    /\ calls < MaxPuts
    /\ \E w \in Writers, op \in {"put_bytes", "put_file"}, data \in Blobs :
        /\ proc[w].pc = "idle"
        /\ LET quiet == \A v \in Writers : proc[v].pc = "idle" IN
           proc' = [v \in Writers |->
                       IF v = w
                       THEN [IdleProc EXCEPT !.pc = "exists", !.op = op, !.data = data,
                                             !.alone = quiet]
                       ELSE [proc[v] EXCEPT !.alone = @ /\ proc[v].pc = "idle"]]
    /\ fs' = [fs EXCEPT !.dir = TRUE]
    /\ calls' = calls + 1
    /\ UNCHANGED <<puts, read, hookVars, recVars, ckptVars, runVars>>

\* if not os.path.exists(path)
PutExists ==
    /\ \E w \in Writers :
        /\ proc[w].pc = "exists"
        /\ proc' = [proc EXCEPT ![w].pc =
                       IF Exists(fs, FinalPath(proc[w].data)) THEN "return" ELSE "open"]
    /\ UNCHANGED <<fs, puts, calls, read, hookVars, recVars, ckptVars, runVars>>

\* put_bytes: open(tmp_path, "wb").  put_file: shutil.copyfile opens
\* dest_path, the final name, for writing.
PutOpen ==
    /\ \E w \in Writers :
        /\ proc[w].pc = "open"
        /\ LET target == IF proc[w].op = "put_bytes" THEN TmpPath(proc[w].data)
                         ELSE FinalPath(proc[w].data)
           IN  /\ fs' = OpenWb(fs, target)
               /\ proc' = [proc EXCEPT ![w].pc = "write", ![w].fd = FdOf(fs, target),
                                       ![w].pos = 0, ![w].wrote = TRUE]
    /\ UNCHANGED <<puts, calls, read, hookVars, recVars, ckptVars, runVars>>

\* The next chunk reaches the file; after the last one the file is closed.
PutWrite ==
    /\ \E w \in Writers :
        /\ proc[w].pc = "write"
        /\ fs' = WriteAt(fs, proc[w].fd, proc[w].pos, proc[w].data[proc[w].pos + 1])
        /\ proc' = [proc EXCEPT ![w].pos = @ + 1,
                                ![w].pc = IF proc[w].pos + 1 < Len(proc[w].data) THEN "write"
                                          ELSE IF proc[w].op = "put_bytes" THEN "replace"
                                          ELSE "return"]
    /\ UNCHANGED <<puts, calls, read, hookVars, recVars, ckptVars, runVars>>

\* os.replace(tmp_path, path); FileNotFoundError when tmp_path is gone.
PutReplace ==
    /\ \E w \in Writers :
        /\ proc[w].pc = "replace"
        /\ IF Exists(fs, TmpPath(proc[w].data))
           THEN /\ fs' = Replace(fs, TmpPath(proc[w].data), FinalPath(proc[w].data))
                /\ proc' = [proc EXCEPT ![w].pc = "return"]
                /\ puts' = puts
           ELSE /\ fs' = fs
                /\ proc' = [proc EXCEPT ![w] = IdleProc]
                /\ puts' = Append(puts, PutEnded(w, "FileNotFoundError", None))
    /\ UNCHANGED <<calls, read, hookVars, recVars, ckptVars, runVars>>

\* return f"artifact://sha256/{hex_hash}"
PutReturn ==
    /\ \E w \in Writers :
        /\ proc[w].pc = "return"
        /\ proc' = [proc EXCEPT ![w] = IdleProc]
        /\ puts' = Append(puts, PutEnded(w, "", Some(ArtifactRef(proc[w].data))))
    /\ UNCHANGED <<fs, calls, read, hookVars, recVars, ckptVars, runVars>>

\* The process dies inside the call; what it did to the files stays.
Crash ==
    /\ \E w \in Writers :
        /\ proc[w].pc # "idle"
        /\ proc' = [proc EXCEPT ![w] = IdleProc]
    /\ UNCHANGED <<fs, puts, calls, read, hookVars, recVars, ckptVars, runVars>>

\* A reader calls get_bytes(ref).
GetBytes ==
    /\ \E ref \in Refs :
        read' = [call |-> "get_bytes", ref |-> ref, result |-> get_bytes(fs, ref)]
    /\ UNCHANGED <<fs, proc, puts, calls, hookVars, recVars, ckptVars, runVars>>

\* A reader calls has(ref).
Has ==
    /\ \E ref \in Refs :
        read' = [call |-> "has", ref |-> ref, result |-> has(fs, ref)]
    /\ UNCHANGED <<fs, proc, puts, calls, hookVars, recVars, ckptVars, runVars>>

\* ------------------------------------------------------ record(): its inputs
Payloads == {<<"a", "b">>}

DEFAULT_REDACTION == "applied=False,mode=store"

\* What a caller may hand in as hashchain: nothing, or a chain of its own.
CallerHashchains ==
    {None, Some([prev |-> sha256_bytes("forged"), self |-> Some(sha256_bytes("forged"))])}

\* The caller's event dict; an absent key is None.
CallerEvents ==
    [event_type : {"test"},
     seq : {None, Some(1)},
     redaction : {None, Some("caller")},
     hashchain : CallerHashchains]

\* A recorder that never advances prev.
ChainFromGenesis(prev) == [prev |-> GENESIS_HASH, self |-> Some("")]

\* The hashchain record() gives the object: prev is the running hash.
ChainFrom(prev) == [prev |-> prev, self |-> Some("")]

\* record(), from the copy of the event to obj["hashchain"]["self"] = self_hash.
BuildEvent(event, payload_bytes, redaction, prev) ==
    LET obj0 == [event_type |-> event.event_type,
                 seq |-> event.seq,
                 payload_ref |-> IF payload_bytes # None
                                 THEN Some(ArtifactRef(payload_bytes[1])) ELSE None,
                 redaction |-> IF event.redaction # None THEN event.redaction[1]
                               ELSE IF redaction # None THEN redaction[1]
                               ELSE DEFAULT_REDACTION,
                 hashchain |-> ChainFrom(prev)]
    IN  [obj0 EXCEPT !.hashchain.self = Some(hash_event_without_self(obj0))]

RecInit ==
    /\ prev_hash = GENESIS_HASH
    /\ fh_closed = FALSE
    /\ events_file = <<>>
    /\ fh_buffer = <<>>
    /\ returned = <<>>
    /\ head_file = None

\* A recorder that takes the new hash as its running hash whether or not
\* the line reached the file.
NextPrevEager(raised, prev, self_hash) == self_hash

\* self.prev_hash = self_hash is the statement after write and flush: it runs
\* only when neither raised.
NextPrev(raised, prev, self_hash) == IF raised THEN prev ELSE self_hash

\* record(event, payload_bytes, redaction, validate_schema); schema_raises is
\* the verdict of the schema capability when validation is asked for,
\* flush_raises that of the operating system when the file is flushed.  A
\* write on a closed file raises; a flush that raises leaves the line in the
\* file object.
Record ==
    /\ Len(events_file) + Len(fh_buffer) < MaxRecords
    /\ \E event \in CallerEvents, payload_bytes \in {None} \cup {Some(b) : b \in Payloads},
          redaction \in {None, Some("argument")}, schema_raises \in BOOLEAN,
          flush_raises \in BOOLEAN :
        LET obj == BuildEvent(event, payload_bytes, redaction, prev_hash)
            line == canonical_dumps(obj)
            not_written == schema_raises \/ fh_closed
            raised == not_written \/ flush_raises
        IN
        /\ fs' = IF payload_bytes # None THEN put_bytes(fs, payload_bytes[1]) ELSE fs
        /\ prev_hash' = NextPrev(raised, prev_hash, obj.hashchain.self[1])
        /\ IF not_written
           THEN UNCHANGED <<events_file, fh_buffer, returned>>
           ELSE IF flush_raises
           THEN /\ Len(fh_buffer) < MaxUnflushed
                /\ fh_buffer' = Append(fh_buffer, line)
                /\ UNCHANGED <<events_file, returned>>
           ELSE /\ events_file' = Append(events_file \o fh_buffer, line)
                /\ fh_buffer' = <<>>
                /\ returned' = Append(returned, obj)
    /\ UNCHANGED <<fh_closed, head_file, proc, puts, calls, read, hookVars, ckptVars, runVars>>

\* A finalize that writes the start of the chain.
FinalizeWritesGenesis ==
    /\ head_file' = Some(GENESIS_HASH)
    /\ UNCHANGED <<prev_hash, fh_closed, events_file, fh_buffer, returned, hookVars,
                   storeVars, ckptVars, runVars>>

\* finalize(head_path)
Finalize ==
    /\ head_file' = Some(prev_hash)
    /\ UNCHANGED <<prev_hash, fh_closed, events_file, fh_buffer, returned, hookVars,
                   storeVars, ckptVars, runVars>>

\* close(): the file object flushes what it holds, or loses it when that
\* flush fails, and is closed either way.
Close ==
    /\ ~fh_closed
    /\ fh_closed' = TRUE
    /\ \E flushed \in BOOLEAN :
        events_file' = IF flushed THEN events_file \o fh_buffer ELSE events_file
    /\ fh_buffer' = <<>>
    /\ UNCHANGED <<prev_hash, returned, head_file, hookVars, storeVars, ckptVars, runVars>>

\* EventRecorder(events_path, store) on the path of the recorder before it,
\* which has been closed: the running hash starts at GENESIS_HASH and the
\* file is opened for appending, with the lines it has.
Construct ==
    /\ fh_closed
    /\ prev_hash' = GENESIS_HASH
    /\ fh_closed' = FALSE
    /\ fh_buffer' = <<>>
    /\ returned' = <<>>
    /\ UNCHANGED <<events_file, head_file, hookVars, storeVars, ckptVars, runVars>>

\* -------------------------------------------------------- CheckpointManager
SurfacePaths == {"/ws"}
Labels == {"step0"}

\* The surfaces argument of save: name -> path, in insertion order.
SurfaceDicts ==
    { << [name |-> "workspace", path |-> "/ws"] >>,
      << [name |-> "workspace", path |-> "/ws"], [name |-> "sibling", path |-> "/ws2"] >> }

\* The runtime_state argument of save: values json can encode, or one it
\* cannot.
RuntimeStates == {"encodable", "unencodable"}

\* before: the record file of the label as the save call found it.
NoSave == [label |-> "", raised |-> "", killed |-> "", surfaces |-> <<>>, before |-> <<>>]

\* Record files no save wrote, by their surfaces.  One names for the surface
\* the archive with a member of the directory next to it.  The others name
\* the archive of file.txt = "hello" for the surface and, for the directory
\* next to it, a ref the store has no blob for or the archive with a member
\* that climbs out.
CraftedCheckpoints ==
    LET good == [name |-> "workspace", path |-> "/ws",
                 artifact_ref |-> ArtifactRef(tar_path([EmptyFiles EXCEPT
                                                  !["file.txt"] = Some("hello")]))]
    IN  { << [name |-> "workspace", path |-> "/ws",
              artifact_ref |-> ArtifactRef(Crafted("../ws2/file.txt"))] >>,
          << good, [name |-> "sibling", path |-> "/ws2",
                    artifact_ref |-> ArtifactRef(<<"z">>)] >>,
          << good, [name |-> "sibling", path |-> "/ws2",
                    artifact_ref |-> ArtifactRef(Crafted("../../etc/passwd"))] >> }

\* before: the surface directories as the restore call found them.
NoRestore == [label |-> "", raised |-> "", before |-> <<>>, surfaces |-> <<>>]

\* put_file(path), path holding data, run by one process with no other
\* process on the store.
put_file(fsys, data) ==
    LET f0 == [fsys EXCEPT !.dir = TRUE] IN
    IF Exists(f0, FinalPath(data)) THEN f0
    ELSE WriteFrom(OpenWb(f0, FinalPath(data)), FdOf(f0, FinalPath(data)), 0, data)

RECURSIVE SaveFrom(_, _, _, _, _)
\* for name, path in surfaces.items(): ..., from the i-th surface on.
SaveFrom(fsys, dsk, surfaces, i, entries) ==
    IF i > Len(surfaces) THEN [fs |-> fsys, raised |-> "", surfaces |-> entries]
    ELSE IF dsk[surfaces[i].path] = None
    THEN [fs |-> fsys, raised |-> "FileNotFoundError", surfaces |-> entries]
    ELSE LET data == tar_path(dsk[surfaces[i].path][1]) IN
         SaveFrom(put_file(fsys, data), dsk, surfaces, i + 1,
                  Append(entries, [name |-> surfaces[i].name,
                                   path |-> surfaces[i].path,
                                   artifact_ref |-> ArtifactRef(data)]))

\* tarfile reads the bytes to the end of the archive.
Readable(bytes) == bytes # <<>> /\ bytes[Len(bytes)] = "EOF"

\* tar.getmembers(): the regular-file members, as name and bytes.
Members(archive) ==
    {m \in MemberNames \X Contents :
        \E i \in 1..Len(archive) : archive[i] = TarMember(m[1], m[2])}

RECURSIVE SplitFrom(_, _, _, _)
\* text.split("/"), from the i-th character on.
SplitFrom(text, i, part, parts) ==
    IF i > Len(text) THEN Append(parts, part)
    ELSE IF SubSeq(text, i, i) = "/"
    THEN SplitFrom(text, i + 1, "", Append(parts, part))
    ELSE SplitFrom(text, i + 1, part \o SubSeq(text, i, i), parts)

RECURSIVE Normalize(_, _)
\* os.path.normpath on the parts of an absolute path: "" and "." are dropped,
\* ".." drops the part before it and is dropped itself at the root.
Normalize(stack, rest) ==
    IF rest = <<>> THEN stack
    ELSE IF Head(rest) \in {"", "."} THEN Normalize(stack, Tail(rest))
    ELSE IF Head(rest) = ".."
    THEN Normalize(IF stack = <<>> THEN stack ELSE SubSeq(stack, 1, Len(stack) - 1),
                   Tail(rest))
    ELSE Normalize(Append(stack, Head(rest)), Tail(rest))

RECURSIVE JoinParts(_)
JoinParts(parts) ==
    IF parts = <<>> THEN "" ELSE "/" \o Head(parts) \o JoinParts(Tail(parts))

\* os.path.realpath of an absolute path where no name is a symbolic link.
realpath(text) ==
    LET joined == JoinParts(Normalize(<<>>, SplitFrom(text, 1, "", <<>>)))
    IN  IF joined = "" THEN "/" ELSE joined

\* The directories of the file system the manager works in: the surface and
\* the directory next to it.
DiskPaths == {"/ws", "/ws2"}

\* os.path.realpath(os.path.join(path, name)) for every directory and
\* member name.
ResolvedPaths ==
    [path \in DiskPaths, name \in MemberNames |-> realpath(path \o "/" \o name)]

\* member_path = os.path.join(path, member.name), resolved.
MemberPath(path, name) == ResolvedPaths[path, name]

\* str.startswith
StartsWith(text, prefix) ==
    Len(text) >= Len(prefix) /\ SubSeq(text, 1, Len(prefix)) = prefix

\* _safe_extract raises when a member's resolved path does not start with
\* the resolved target path.
Unsafe(archive, path) ==
    \E m \in Members(archive) : ~StartsWith(MemberPath(path, m[1]), realpath(path))

\* An extraction that leaves the files already there as they are.
ExtractMissingOnly(world, path, archive) ==
    LET members == Members(archive)
        dest == [m \in members |-> MemberPath(path, m[1])]
        Written(p, n) == {m \in members : dest[m] = p \o "/" \o n}
        Strays == {m \in members :
                      \A p \in DiskPaths, n \in FileNames : m \notin Written(p, n)}
    IN  [disk |-> [p \in DiskPaths |->
                      IF \A n \in FileNames : Written(p, n) = {} THEN world.disk[p]
                      ELSE LET dir == IF world.disk[p] = None THEN EmptyFiles
                                      ELSE world.disk[p][1]
                           IN  Some([n \in FileNames |->
                                        IF Written(p, n) # {} /\ dir[n] = None
                                        THEN Some((CHOOSE m \in Written(p, n) : TRUE)[2])
                                        ELSE dir[n]])],
         outside |-> world.outside \cup {<<dest[m], m[2]>> : m \in Strays}]

\* tar.extractall(path): every member is written at os.path.join(path, name),
\* over the file that is there and with the directories above it made; what
\* no member names stays as it is.
ExtractAll(world, path, archive) ==
    LET members == Members(archive)
        dest == [m \in members |-> MemberPath(path, m[1])]
        Written(p, n) == {m \in members : dest[m] = p \o "/" \o n}
        Strays == {m \in members :
                      \A p \in DiskPaths, n \in FileNames : m \notin Written(p, n)}
    IN  [disk |-> [p \in DiskPaths |->
                      IF \A n \in FileNames : Written(p, n) = {} THEN world.disk[p]
                      ELSE LET dir == IF world.disk[p] = None THEN EmptyFiles
                                      ELSE world.disk[p][1]
                           IN  Some([n \in FileNames |->
                                        IF Written(p, n) # {}
                                        THEN Some((CHOOSE m \in Written(p, n) : TRUE)[2])
                                        ELSE dir[n]])],
         outside |-> world.outside \cup {<<dest[m], m[2]>> : m \in Strays}]

\* What a restore call gives: the directories, the files written elsewhere
\* and the exception raised ("" for none).
RestoreResult(world, exc) ==
    [disk |-> world.disk, outside |-> world.outside, raised |-> exc]

RECURSIVE RestoreFrom(_, _, _, _)
\* for surface in checkpoint["surfaces"].values(): ..., from the i-th on.
RestoreFrom(fsys, world, entries, i) ==
    IF i > Len(entries) THEN RestoreResult(world, "")
    ELSE LET got == get_bytes(fsys, entries[i].artifact_ref)
             path == entries[i].path
             dir == IF world.disk[path] = None THEN EmptyFiles ELSE world.disk[path][1]
             made == [world EXCEPT !.disk[path] = Some(dir)]
         IN  IF got.raised # "" THEN RestoreResult(world, got.raised)
             ELSE IF ~Readable(got.bytes[1]) THEN RestoreResult(world, "ReadError")
             ELSE IF Unsafe(got.bytes[1], path) THEN RestoreResult(made, "ValueError")
             ELSE RestoreFrom(fsys, ExtractAll(made, path, got.bytes[1]), entries, i + 1)

\* A restore that empties every surface directory before it extracts.
restore_emptied(fsys, dsk, recs, label) ==
    IF recs[label] = None
    THEN RestoreResult([disk |-> dsk, outside |-> outside], "FileNotFoundError")
    ELSE IF ~recs[label][1].whole
    THEN RestoreResult([disk |-> dsk, outside |-> outside], "JSONDecodeError")
    ELSE RestoreFrom(fsys,
                     [disk |-> [p \in DiskPaths |->
                                   IF dsk[p] = None THEN None ELSE Some(EmptyFiles)],
                      outside |-> outside],
                     recs[label][1].surfaces, 1)

\* restore(checkpoint_path) for the record file of `label`.
restore(fsys, dsk, recs, label) ==
    IF recs[label] = None
    THEN RestoreResult([disk |-> dsk, outside |-> outside], "FileNotFoundError")
    ELSE IF ~recs[label][1].whole
    THEN RestoreResult([disk |-> dsk, outside |-> outside], "JSONDecodeError")
    ELSE RestoreFrom(fsys, [disk |-> dsk, outside |-> outside], recs[label][1].surfaces, 1)

CkptInit ==
    /\ disk = [p \in DiskPaths |-> None]
    /\ records = [l \in Labels |-> None]
    /\ at_save = [l \in Labels |-> None]
    /\ saves = 0
    /\ restored = NoRestore
    /\ outside = {}
    /\ saved = NoSave

\* save(label, surfaces, runtime_state).  killed: the process is not stopped
\* (""), or it is stopped after the loop over the surfaces ("loop"), or
\* inside json.dump ("dump").  json.dump writes the text piece by piece into
\* the file open(out_path, "w") has emptied or created; on a runtime_state
\* with a value it cannot encode it raises TypeError when it comes to it.
\* Either way less than the whole text is in the record file.
Save ==
    /\ saves < MaxSaves
    /\ saves' = saves + 1
    /\ \E label \in Labels, surfaces \in SurfaceDicts, runtime_state \in RuntimeStates,
          killed \in {"", "loop", "dump"} :
        LET out == SaveFrom(fs, disk, surfaces, 1, <<>>)
            dumped == killed = "" /\ runtime_state = "encodable"
        IN
        /\ fs' = out.fs
        /\ saved' = [label |-> label,
                     raised |-> IF out.raised # "" THEN out.raised
                                ELSE IF killed = "" /\ ~dumped THEN "TypeError" ELSE "",
                     killed |-> IF out.raised # "" THEN "" ELSE killed,
                     surfaces |-> surfaces, before |-> <<records[label]>>]
        /\ IF out.raised # "" \/ killed = "loop" THEN UNCHANGED <<records, at_save>>
           ELSE /\ records' = [records EXCEPT ![label] =
                                  Some([label |-> label, surfaces |-> out.surfaces,
                                        whole |-> dumped])]
                /\ at_save' = IF dumped THEN [at_save EXCEPT ![label] = Some(disk)]
                              ELSE at_save
    /\ restored' = NoRestore
    /\ UNCHANGED <<disk, outside, proc, puts, calls, read, hookVars, recVars, runVars>>

\* Something outside the manager stores an archive it made with put_bytes.
PutArchive ==
    /\ \E a \in CraftedArchives :
        /\ ~Exists(fs, FinalPath(a))
        /\ fs' = put_bytes(fs, a)
    /\ restored' = NoRestore
    /\ saved' = NoSave
    /\ UNCHANGED <<disk, records, at_save, saves, outside, proc, puts, calls, read,
                   hookVars, recVars, runVars>>

\* Something outside the manager creates the directory of a surface.
MakeSurface ==
    /\ \E path \in DiskPaths :
        /\ disk[path] = None
        /\ disk' = [disk EXCEPT ![path] = Some(EmptyFiles)]
    /\ restored' = NoRestore
    /\ saved' = NoSave
    /\ UNCHANGED <<records, at_save, saves, outside, hookVars, recVars, storeVars, runVars>>

\* Something outside the manager writes a file of a surface: new bytes in a
\* file that is there, or a file that was not.
WriteFile ==
    /\ \E path \in SurfacePaths, n \in FileNames, c \in Contents :
        /\ disk[path] # None
        /\ disk[path][1][n] # Some(c)
        /\ disk' = [disk EXCEPT ![path] = Some([disk[path][1] EXCEPT ![n] = Some(c)])]
    /\ restored' = NoRestore
    /\ saved' = NoSave
    /\ UNCHANGED <<records, at_save, saves, outside, hookVars, recVars, storeVars, runVars>>

\* Something outside the manager removes a file of a surface.
RemoveFile ==
    /\ \E path \in SurfacePaths, n \in FileNames :
        /\ disk[path] # None
        /\ disk[path][1][n] # None
        /\ disk' = [disk EXCEPT ![path] = Some([disk[path][1] EXCEPT ![n] = None])]
    /\ restored' = NoRestore
    /\ saved' = NoSave
    /\ UNCHANGED <<records, at_save, saves, outside, hookVars, recVars, storeVars, runVars>>

\* restore(checkpoint_path), the path of the record file of a label.
Restore ==
    /\ \E label \in Labels :
        LET out == restore(fs, disk, records, label) IN
        /\ disk' = out.disk
        /\ outside' = out.outside
        /\ restored' = [label |-> label, raised |-> out.raised, before |-> <<disk>>,
                        surfaces |-> IF records[label] = None THEN <<>>
                                     ELSE records[label][1].surfaces]
    /\ saved' = NoSave
    /\ UNCHANGED <<records, at_save, saves, hookVars, recVars, storeVars, runVars>>

\* restore(checkpoint_path), the path of a record file no save wrote.
RestoreCrafted ==
    /\ \E surfaces \in CraftedCheckpoints :
        LET out == RestoreFrom(fs, [disk |-> disk, outside |-> outside], surfaces, 1) IN
        /\ disk' = out.disk
        /\ outside' = out.outside
        /\ restored' = [label |-> "crafted", raised |-> out.raised, before |-> <<disk>>,
                        surfaces |-> surfaces]
    /\ saved' = NoSave
    /\ UNCHANGED <<records, at_save, saves, hookVars, recVars, storeVars, runVars>>

\* ------------------------------------------------- experiment and run
\* A value of the document's version key: a text, or a number as YAML reads
\* an unquoted 0.3.
StrValue(text) == [type |-> "str", text |-> text]
FloatValue(text) == [type |-> "float", text |-> text]

Versions == {None, Some(StrValue("0.3")), Some(StrValue("0.2")), Some(FloatValue("0.3"))}

\* A check that takes any version the document gives.
SupportedVersionAny(version) == version # None

\* version != "0.3" does not hold: the value is the text "0.3".
SupportedVersion(version) == version = Some(StrValue("0.3"))

\* What the harness command does in a trial: exits 0 with trial_output.json
\* written, exits non-zero, exits 0 without the output file, writes a hook
\* stream collect() refuses, or runs on past any bound.
TrialOutcomes == {"ok", "nonzero_exit", "no_output", "hook_violation", "no_exit"}

\* The document handed to run_experiment_spec, an absent key being None,
\* with the dataset file and the harness the document names.
\* harness_head: the head file the harness leaves in each trial directory.
Experiments ==
    [version : Versions,
     dataset_path : {None, Some("data.jsonl")},
     content_hash : {None, Some("sha256:data")},
     dataset_exists : BOOLEAN,
     mode : {"cli", "container"},
     command : {None, Some("harness")},
     analysis_plan : BOOLEAN,
     replications : 1..MaxReplications,
     variant_plan : {<<>>, <<"treatment">>},
     harness_head : {None, Some(<<"sha256:head", "\n">>)}]

\* str.strip on a text given as its parts: white space at both ends goes.
RECURSIVE strip(_)
strip(text) ==
    IF text = <<>> THEN text
    ELSE IF Head(text) \in {" ", "\n"} THEN strip(Tail(text))
    ELSE IF text[Len(text)] \in {" ", "\n"} THEN strip(SubSeq(text, 1, Len(text) - 1))
    ELSE text

\* sha256_bytes(canonical_dumps(resolved)): the digest of the resolved
\* document, two documents having one digest when they have the same text.
ExperimentDigest(exp) ==
    "sha256:" \o exp.dataset_path[1] \o "," \o exp.mode \o "," \o exp.command[1]
        \o "," \o (IF exp.replications = 1 THEN "1" ELSE "n")
        \o "," \o (IF exp.variant_plan = <<>> THEN "base" ELSE "base+treatment")

\* _variant_plan_entries: the baseline, then the variant plan.
variant_plan_entries(exp) == <<"base">> \o exp.variant_plan

\* The task x replication x variant combinations in the order of the three
\* loops: tasks outermost, variants innermost.
Combinations(n_tasks, exp) ==
    LET vs == variant_plan_entries(exp)
        per_task == exp.replications * Len(vs)
    IN  [i \in 1..(n_tasks * per_task) |->
            [task_idx |-> (i - 1) \div per_task,
             repl_idx |-> ((i - 1) % per_task) \div Len(vs),
             variant_id |-> vs[((i - 1) % Len(vs)) + 1]]]

\* The exception each outcome of the harness ends the trial with.
TrialError(outcome) ==
    CASE outcome = "nonzero_exit" -> "RuntimeError"
      [] outcome = "no_output" -> "FileNotFoundError"
      [] outcome = "hook_violation" -> "HookValidationError"
      [] OTHER -> ""

\* _hashchain_heads: one entry for each trial directory that has a file
\* events.head; os.listdir gives the directories in no order that matters.
hashchain_heads(ts) ==
    {[trial_id |-> i, head |-> strip(ts[i].head_file[1])] :
        i \in {j \in 1..Len(ts) : ts[j].head_file # None}}

RunInit ==
    /\ experiment = None
    /\ run_pc = "idle"
    /\ inspected = <<>>
    /\ io = <<>>
    /\ run_dir = None
    /\ tasks = 0
    /\ trials = <<>>
    /\ run_err = ""
    /\ attestation = None

\* raise: the exception leaves run_experiment_spec.
RunRaise(exc) ==
    /\ run_pc' = "failed"
    /\ run_err' = exc

\* run_experiment_spec(experiment) is called.
RunCall ==
    /\ run_pc = "idle"
    /\ \E exp \in Experiments : experiment' = Some(exp)
    /\ run_pc' = "version"
    /\ UNCHANGED <<inspected, io, run_dir, tasks, trials, run_err, attestation,
                   hookVars, recVars, storeVars, ckptVars>>

\* resolve_experiment_config: the copy, exp.get("version") and the check.
ResolveVersion ==
    /\ run_pc = "version"
    /\ inspected' = Append(inspected, "version")
    /\ IF SupportedVersion(experiment[1].version)
       THEN run_pc' = "dataset" /\ run_err' = run_err
       ELSE RunRaise("ValueError: Only version 0.3 is supported")
    /\ UNCHANGED <<experiment, io, run_dir, tasks, trials, attestation,
                   hookVars, recVars, storeVars, ckptVars>>

\* resolve_experiment_config: dataset.path and dataset.content_hash;
\* sha256_file reads the dataset when the document gives no hash.
ResolveDataset ==
    /\ run_pc = "dataset"
    /\ inspected' = Append(inspected, "dataset")
    /\ LET exp == experiment[1] IN
       IF exp.dataset_path = None
       THEN RunRaise("ValueError: dataset.path is required") /\ io' = io
       ELSE IF exp.content_hash # None
       THEN run_pc' = "harness" /\ run_err' = run_err /\ io' = io
       ELSE /\ io' = Append(io, "read dataset")
            /\ IF exp.dataset_exists THEN run_pc' = "harness" /\ run_err' = run_err
               ELSE RunRaise("FileNotFoundError")
    /\ UNCHANGED <<experiment, run_dir, tasks, trials, attestation,
                   hookVars, recVars, storeVars, ckptVars>>

\* resolve_experiment_config: runtime.harness mode and command.
ResolveHarness ==
    /\ run_pc = "harness"
    /\ inspected' = Append(inspected, "runtime.harness")
    /\ LET exp == experiment[1] IN
       IF exp.mode # "cli"
       THEN RunRaise("ValueError: runtime.harness.mode must be 'cli' for this runner")
       ELSE IF exp.command = None
       THEN RunRaise("ValueError: runtime.harness.command is required")
       ELSE run_pc' = "validate" /\ run_err' = run_err
    /\ UNCHANGED <<experiment, io, run_dir, tasks, trials, attestation,
                   hookVars, recVars, storeVars, ckptVars>>

\* validate_resolved_experiment
Validate ==
    /\ run_pc = "validate"
    /\ IF experiment[1].analysis_plan
       THEN run_pc' = "prepare" /\ run_err' = run_err
       ELSE RunRaise("ValueError: analysis_plan is required")
    /\ UNCHANGED <<experiment, inspected, io, run_dir, tasks, trials, attestation,
                   hookVars, recVars, storeVars, ckptVars>>

\* The digest, then _run_resolved_experiment up to the loop over the tasks:
\* the run directory with the resolved document and its digest, the
\* manifest, the variants, and load_jsonl on the dataset.
Prepare ==
    /\ run_pc = "prepare"
    /\ run_dir' = Some([digest_file |-> <<ExperimentDigest(experiment[1])>>])
    /\ io' = io \o <<"write resolved_experiment.json", "write resolved_experiment.digest",
                     "write manifest.json", "write resolved_variant.json", "read dataset">>
    /\ IF experiment[1].dataset_exists
       THEN /\ \E n \in 1..MaxTasks : tasks' = n
            /\ run_pc' = "trials"
            /\ run_err' = run_err
       ELSE /\ tasks' = tasks
            /\ RunRaise("FileNotFoundError")
    /\ UNCHANGED <<experiment, inspected, trials, attestation,
                   hookVars, recVars, storeVars, ckptVars>>

\* One pass of the innermost loop: the trial directory, the control file,
\* executor.run, the metrics copy, the manifest and collect().  Any
\* exception leaves the three loops and _run_resolved_experiment; a harness
\* that does not exit keeps subprocess.run waiting, no timeout being passed.
RunTrial ==
    /\ run_pc = "trials"
    /\ Len(trials) < Len(Combinations(tasks, experiment[1]))
    /\ \E outcome \in TrialOutcomes :
        /\ trials' = Append(trials,
                        [combination |-> Combinations(tasks, experiment[1])[Len(trials) + 1],
                         outcome |-> outcome,
                         head_file |-> IF outcome = "no_exit" THEN None
                                       ELSE experiment[1].harness_head])
        /\ IF outcome = "ok" THEN run_pc' = "trials" /\ run_err' = run_err
           ELSE IF outcome = "no_exit" THEN run_pc' = "blocked" /\ run_err' = run_err
           ELSE RunRaise(TrialError(outcome))
    /\ UNCHANGED <<experiment, inspected, io, run_dir, tasks, attestation,
                   hookVars, recVars, storeVars, ckptVars>>

\* After the loops: analysis, report, grades, and write_attestation.
Attest ==
    /\ run_pc = "trials"
    /\ Len(trials) = Len(Combinations(tasks, experiment[1]))
    /\ attestation' = Some([resolved_experiment_digest |-> strip(run_dir[1].digest_file),
                            events_hashchain |-> hashchain_heads(trials)])
    /\ io' = io \o <<"read resolved_experiment.digest", "write attestation.json">>
    /\ run_pc' = "done"
    /\ UNCHANGED <<experiment, inspected, run_dir, tasks, trials, run_err,
                   hookVars, recVars, storeVars, ckptVars>>

\* ------------------------------------------------------------ properties
\* What collect() would make of `line` if it were the next one of the file.
Outcome(line) == LoopBody(Frame, line_num + 1, line, manifest)

\* The stream so far has not been rejected.
Live == status \in {"reading", "accepted"}

EventLines == {l \in Lines : l.kind = "object" /\ l.event_type # HEADER}

\* Positions of the events of type t in the accepted list.
Positions(t) == {i \in 1..Len(events) : events[i].event_type = t}

\* step_index of the most recent agent_step_start accepted, None if none.
LastStartStep ==
    IF Positions(STEP_START) = {} THEN None
    ELSE LET i == CHOOSE i \in Positions(STEP_START) :
                      \A j \in Positions(STEP_START) : j <= i
         IN  events[i].step_index

\* The accepted events, by type and step_index.
Shape == [i \in 1..Len(events) |-> <<events[i].event_type, events[i].step_index>>]

\* C1: the first event a recorder stores has hashchain.prev = GENESIS_HASH and
\* every later one has hashchain.prev equal to hashchain.self of the one
\* stored before it.
C1_HashchainLinked ==
    \A i \in 1..Len(returned) :
        returned[i].hashchain.prev =
            IF i = 1 THEN GENESIS_HASH ELSE returned[i - 1].hashchain.self[1]

C1_Witness ==
    /\ Len(returned) >= 3
    /\ returned[3].hashchain.prev = returned[2].hashchain.self[1]
    /\ returned[3].hashchain.prev # GENESIS_HASH

\* C2: the accepted events have strictly increasing seq, and in every state
\* of the reading an event whose seq is not greater than the last accepted one
\* is rejected with the monotonicity error at its own 1-based line number.
C2_SeqStrictlyIncreasing ==
    /\ Live => \A i \in 2..Len(events) : events[i].seq[1] > events[i - 1].seq[1]
    /\ status = "reading" /\ events # <<>> => last_seq = events[Len(events)].seq
    /\ status = "reading" =>
         \A line \in EventLines :
             SchemaValid(line) /\ last_seq # None /\ line.seq[1] <= last_seq[1] =>
                 LET o == Outcome(line) IN
                 /\ o.status = "rejected"
                 /\ o.err.message = MSG_SEQ
                 /\ o.err.line_num = Some(line_num + 1)

\* seq = [1,2,2]: rejected at line 3.
C2_Witness ==
    /\ status = "rejected"
    /\ err.message = MSG_SEQ
    /\ err.line_num = Some(3)
    /\ err.seq = Some(2)
    /\ err.details = <<Some(2), Some(2)>>

\* C3: while an acknowledgement is pending, and once a stop acknowledgement
\* has been seen, every agent_step_start is rejected; so among the accepted
\* events no agent_step_start follows a stop acknowledgement and none lies
\* between an agent_step_end and the next control_ack.
C3_StartBlocked ==
    /\ status = "reading" /\ (pending_control_ack # None \/ stop_observed) =>
         \A line \in EventLines :
             line.event_type = STEP_START => Outcome(line).status = "rejected"
    /\ Live =>
         \A j \in Positions(STEP_START) :
             /\ \A i \in Positions(CONTROL_ACK) :
                    i < j => events[i].action_observed # "stop"
             /\ \A i \in Positions(STEP_END) :
                    i < j => \E a \in Positions(CONTROL_ACK) : i < a /\ a < j

\* start, end, ack(stop), start: the last start is refused for the stop.
C3_Witness ==
    /\ status = "rejected"
    /\ err.message = MSG_STOP
    /\ err.event_type = Some(STEP_START)
    /\ err.line_num = Some(4)

\* Consecutive accepted agent_step_start events step by exactly one.
StartsIncrementByOne ==
    Live =>
        \A i, j \in Positions(STEP_START) :
            (i < j /\ \A k \in Positions(STEP_START) : ~(i < k /\ k < j)) =>
                events[j].step_index = Some(events[i].step_index[1] + 1)

\* The next start after `shape` with a step_index two ahead is rejected with
\* `message` and `details`.
GapStartRejected(shape, message, details) ==
    status = "reading" /\ Shape = shape =>
        \A line \in EventLines :
            (/\ SchemaValid(line)
             /\ line.event_type = STEP_START
             /\ line.step_index = Some(2)
             /\ line.seq[1] > last_seq[1]) =>
                LET o == Outcome(line) IN
                /\ o.status = "rejected"
                /\ o.err.message = message
                /\ o.err.details = details

\* C4, as claimed: accepted starts increment by one from any first value, and
\* start(0), end(0), start(2) is rejected with expected=1, got=2.
C4_AsClaimed ==
    /\ StartsIncrementByOne
    /\ GapStartRejected(<< <<STEP_START, Some(0)>>, <<STEP_END, Some(0)>> >>,
                        MSG_INCREMENT, <<Some(1), Some(2)>>)

\* C4, amended: accepted starts increment by one from any first value;
\* start(0), end(0), start(2) is rejected for the missing control_ack of step
\* 0, and start(0), end(0), control_ack(0), start(2) is rejected with
\* expected=1, got=2.
C4_StepIncrement ==
    /\ StartsIncrementByOne
    /\ GapStartRejected(<< <<STEP_START, Some(0)>>, <<STEP_END, Some(0)>> >>,
                        MSG_PENDING, <<Some(0)>>)
    /\ GapStartRejected(<< <<STEP_START, Some(0)>>, <<STEP_END, Some(0)>>,
                           <<CONTROL_ACK, Some(0)>> >>,
                        MSG_INCREMENT, <<Some(1), Some(2)>>)

\* start(0), end(0), control_ack(0), start(2): expected=1, got=2 at line 4.
C4_Witness ==
    /\ status = "rejected"
    /\ err.message = MSG_INCREMENT
    /\ err.details = <<Some(1), Some(2)>>
    /\ err.line_num = Some(4)

\* C5: an agent_step_end is accepted only when a step has started and its
\* step_index is that of the most recent accepted agent_step_start, and then
\* the pending acknowledgement is its step_index.
C5_EndMatchesStep ==
    status = "reading" =>
        \A line \in EventLines :
            line.event_type = STEP_END =>
                LET o == Outcome(line) IN
                o.status = "reading" =>
                    /\ LastStartStep # None
                    /\ line.step_index = LastStartStep
                    /\ o.pending_control_ack = line.step_index

\* start(1), end(1): the acknowledgement of step 1 is pending.
C5_Witness ==
    /\ status = "reading"
    /\ Shape = << <<STEP_START, Some(1)>>, <<STEP_END, Some(1)>> >>
    /\ pending_control_ack = Some(1)

\* C6: a control_ack is accepted only when an acknowledgement is pending for
\* its step_index; accepting it clears the pending acknowledgement and, when
\* its action_observed is "stop", sets stop_observed; stop_observed stays set
\* over every later accepted line; every accepted control_ack has an
\* agent_step_end of its step before it with no other control_ack in between.
C6_AckMatchesPending ==
    /\ status = "reading" =>
         \A line \in EventLines :
             LET o == Outcome(line) IN
             /\ (line.event_type = CONTROL_ACK /\ o.status = "reading") =>
                    /\ pending_control_ack # None
                    /\ line.step_index = pending_control_ack
                    /\ o.pending_control_ack = None
                    /\ line.action_observed = "stop" => o.stop_observed
             /\ (stop_observed /\ o.status = "reading") => o.stop_observed
    /\ Live =>
         \A a \in Positions(CONTROL_ACK) :
             \E e \in Positions(STEP_END) :
                 /\ e < a
                 /\ events[e].step_index = events[a].step_index
                 /\ \A b \in Positions(CONTROL_ACK) : ~(e < b /\ b < a)
    /\ status = "reading" =>
         stop_observed =
             (\E a \in Positions(CONTROL_ACK) : events[a].action_observed = "stop")

\* start(0), end(0), ack(0, stop): nothing pending, stop observed.
C6_Witness ==
    /\ status = "reading"
    /\ Len(events) = 3
    /\ events[3].event_type = CONTROL_ACK
    /\ events[3].action_observed = "stop"
    /\ stop_observed
    /\ pending_control_ack = None

\* C7: a stream that ends while an acknowledgement is pending is rejected
\* with "Missing control_ack after agent_step_end"; in an accepted stream
\* every agent_step_end(k) has a control_ack(k) after it.
C7_EndOfStreamPending ==
    /\ status = "reading" /\ pending_control_ack # None =>
         LET o == AfterLoop(Frame) IN
         o.status = "rejected" /\ o.err.message = MSG_EOF
    /\ status = "accepted" =>
         \A e \in Positions(STEP_END) :
             \E a \in Positions(CONTROL_ACK) :
                 e < a /\ events[a].step_index = events[e].step_index

\* The stream ended after agent_step_end(0).
C7_Witness ==
    /\ status = "rejected"
    /\ err.message = MSG_EOF
    /\ err.details = <<Some(0)>>

\* C8: once an agent_step_start has been accepted, every model_call_end,
\* tool_call_end and error without step_index is rejected; among the accepted
\* events one without step_index lies before every agent_step_start.
C8_CausalNeedsStep ==
    /\ status = "reading" /\ Positions(STEP_START) # {} =>
         \A line \in EventLines :
             line.event_type \in {MODEL_CALL_END, "tool_call_end", "error"}
                 /\ line.step_index = None
             => Outcome(line).status = "rejected"
    /\ Live =>
         \A c \in 1..Len(events) :
             events[c].event_type \in {MODEL_CALL_END, "tool_call_end", "error"}
                 /\ events[c].step_index = None
             => \A st \in Positions(STEP_START) : c < st

\* A step has started and an error event without step_index is refused.
C8_Witness ==
    /\ status = "rejected"
    /\ err.message = MSG_CAUSAL
    /\ err.event_type = Some("error")
    /\ err.line_num = Some(3)

\* A key the header carries whose value is not the manifest's.
Differs(header) ==
    \/ header.hooks_schema_version # None
         /\ header.hooks_schema_version[1] # manifest.hooks_schema_version
    \/ header.step_semantics # None
         /\ header.step_semantics[1] # manifest.step_semantics
    \/ header.integration_level # None
         /\ header.integration_level[1] # manifest.integration_level

\* C9: wherever it stands in the stream, a hooks.header with a field that
\* differs from the manifest's is rejected at its own line with the header
\* error, so that no later line is read; a header with no such field leaves
\* the reading as it was.
C9_HeaderMustMatch ==
    /\ status = "reading" =>
         \A line \in HeaderLines :
             LET o == Outcome(line) IN
             IF Differs(line.header)
             THEN /\ o.status = "rejected"
                  /\ o.err.message = MSG_HEADER
                  /\ o.err.line_num = Some(line_num + 1)
             ELSE o = Frame
    /\ status = "rejected" => ~ENABLED ReadLine

\* A header that differs, after two lines that were accepted.
C9_Witness ==
    /\ status = "rejected"
    /\ err.message = MSG_HEADER
    /\ err.event_type = Some(HEADER)
    /\ err.line_num = Some(3)

\* C10, as claimed: every rejection carries the line number and the raw text
\* of the offending line, and the seq and event_type of the parsed object.
C10_AsClaimed ==
    status = "rejected" =>
        /\ err.line_num # None
        /\ err.raw_line # None
        /\ err.message # MSG_JSON =>
               /\ err.seq = err.raw_line[1].seq
               /\ err.event_type = Some(err.raw_line[1].event_type)

\* No process is inside a put call.
Quiet == \A w \in Writers : proc[w].pc = "idle"

\* The names under <root>/sha256 whose file holds exactly data.
Holding(data) == {p \in Paths : Exists(fs, p) /\ ReadFile(fs, p) = data}

\* C11, as claimed: from every state of the store, when put_bytes(b) has been
\* called twice in a row with no other process inside a put call, both calls
\* returned the same ref, the second wrote nothing, exactly one name holds b
\* and get_bytes of the ref returns b.
C11_AsClaimed ==
    (Quiet /\ Len(puts) >= 2) =>
        LET one == puts[Len(puts) - 1]
            two == puts[Len(puts)]
        IN  (/\ one.op = "put_bytes" /\ two.op = "put_bytes"
             /\ one.data = two.data
             /\ one.alone /\ two.alone) =>
                /\ one.raised = "" /\ two.raised = ""
                /\ one.ref = two.ref
                /\ ~two.wrote
                /\ Cardinality(Holding(two.data)) = 1
                /\ get_bytes(fs, two.ref[1]) = ReturnedBytes(two.data)

\* C12, as claimed: in every state of the store, a crash inside put_bytes or
\* put_file included, the file under every final name <root>/sha256/<hex> is
\* complete: its bytes are the bytes whose digest is <hex>.
C12_AsClaimed ==
    \A b \in Blobs :
        Exists(fs, FinalPath(b)) => ReadFile(fs, FinalPath(b)) = b

\* Every put call started has ended or is still running: no process died.
NoCrash == calls = Len(puts) + Cardinality({w \in Writers : proc[w].pc # "idle"})

\* Every put call so far is a put_bytes.
OnlyPutBytes ==
    /\ \A i \in 1..Len(puts) : puts[i].op = "put_bytes"
    /\ \A w \in Writers : proc[w].pc # "idle" => proc[w].op = "put_bytes"

\* C13, as claimed: while processes run put_bytes of the same bytes on one
\* root, in any interleaving and with no process dying, every call that ends
\* returns the ref of its bytes without raising, and at every moment a reader
\* of that ref gets those bytes or finds nothing.
C13_AsClaimed ==
    (NoCrash /\ OnlyPutBytes) =>
        /\ \A i \in 1..Len(puts) :
               puts[i].raised = "" /\ puts[i].ref = Some(ArtifactRef(puts[i].data))
        /\ \A b \in Blobs :
               get_bytes(fs, ArtifactRef(b)) \in
                   {Raised("FileNotFoundError"), ReturnedBytes(b)}

\* The ref is artifact://sha256/ followed by exactly one 64-hex digest.
WellFormed(ref) ==
    /\ Len(ref) = 2
    /\ ref[1] = "artifact"
    /\ Len(ref[2]) = 2
    /\ ref[2][1] = "hex"

\* The ref is well formed and a blob is stored under its digest.
NamesStoredBlob(ref) == WellFormed(ref) /\ Exists(fs, path_for_hash(ref[2]))

\* C14, as claimed: in every state of the store, get_bytes fails and returns
\* no bytes for every ref that is malformed or names no stored blob, and has
\* returns true for exactly the well-formed refs of stored blobs.
C14_AsClaimed ==
    \A ref \in Refs :
        /\ ~NamesStoredBlob(ref) =>
               /\ get_bytes(fs, ref).raised # ""
               /\ get_bytes(fs, ref).bytes = None
        /\ has(fs, ref).found = NamesStoredBlob(ref)

\* C15, as claimed: whatever seq and hashchain the caller's event carries,
\* every stored event has a seq, the seq values of the stored events are
\* strictly increasing in record order, and hashchain.prev of each is the
\* recorder's running hash at the time of the call.
C15_AsClaimed ==
    /\ \A i \in 1..Len(returned) : returned[i].seq # None
    /\ \A i \in 2..Len(returned) : returned[i].seq[1] > returned[i - 1].seq[1]
    /\ \A i \in 1..Len(returned) :
           returned[i].hashchain.prev =
               IF i = 1 THEN GENESIS_HASH ELSE returned[i - 1].hashchain.self[1]

\* What a verifier computes from a stored event after putting `blank` where
\* hashchain.self was: None removes the key, Some("") leaves it empty.
Rehash(obj, blank) == sha256_bytes(canonical_dumps([obj EXCEPT !.hashchain.self = blank]))

\* The same from a line of the log: hashchain.self is the third member.
RehashLine(line, blank) == sha256_bytes([line EXCEPT ![3] = blank])

\* C16, as claimed: hashchain.self of every stored event is the digest of the
\* canonical encoding of the stored event with hashchain.self blanked, the
\* key kept with the empty text as its value; so for every log line.
C16_AsClaimed ==
    /\ \A i \in 1..Len(returned) :
           returned[i].hashchain.self = Some(Rehash(returned[i], Some("")))
    /\ \A i \in 1..Len(events_file) :
           events_file[i][3] = Some(RehashLine(events_file[i], Some("")))

\* C16, amended: hashchain.self of every stored event is the digest of the
\* canonical encoding of the stored event with the key hashchain.self removed
\* and every other member (hashchain.prev, payload_ref, redaction, seq) as
\* stored; a verifier that removes the key from a log line and hashes the
\* rest obtains the recorded self, and one that empties it does not.
C16_SelfHashOmitsSelf ==
    /\ \A i \in 1..Len(returned) :
           /\ returned[i].hashchain.self = Some(Rehash(returned[i], None))
           /\ returned[i].hashchain.self # Some(Rehash(returned[i], Some("")))
    /\ \A i \in 1..Len(events_file) :
           /\ events_file[i][3] = Some(RehashLine(events_file[i], None))
           /\ events_file[i][3] # Some(RehashLine(events_file[i], Some("")))

\* A stored event with a payload_ref and the caller's redaction, second in
\* the chain, whose line is in the log.
C16_Witness ==
    /\ Len(returned) >= 2
    /\ returned[2].payload_ref # None
    /\ returned[2].redaction = "caller"
    /\ returned[2].hashchain.prev # GENESIS_HASH
    /\ Len(events_file) >= 2
    /\ events_file[2] = canonical_dumps(returned[2])
    /\ returned[2].hashchain.self = Some(Rehash(returned[2], None))

\* The log holds a line whose hashchain.self is h.
InLog(h) == \E i \in 1..Len(events_file) : events_file[i][3] = Some(h)

\* C17: every event record() has returned has its canonical line in the log
\* file, flushed; the running hash is GENESIS_HASH or the self of an event
\* whose line is in the log, and it is the self of the last event returned:
\* a call that raised before or at the flush did not advance it.
C17_DurableBeforeReturn ==
    /\ \A i \in 1..Len(returned) :
           \E j \in 1..Len(events_file) : events_file[j] = canonical_dumps(returned[i])
    /\ prev_hash = GENESIS_HASH \/ InLog(prev_hash)
    /\ prev_hash = IF returned = <<>> THEN GENESIS_HASH
                   ELSE returned[Len(returned)].hashchain.self[1]

\* One event was recorded, then a record() failed at the flush: its line
\* waits in the file object and the running hash is still the first event's.
C17_Witness ==
    /\ Len(returned) = 1
    /\ fh_buffer # <<>>
    /\ fh_buffer[1][2] = prev_hash
    /\ InLog(prev_hash)
    /\ ~InLog(fh_buffer[1][3][1])

\* hashchain.self of the event this recorder recorded last, GENESIS_HASH if
\* it has recorded none.
LastSelf ==
    IF returned = <<>> THEN GENESIS_HASH
    ELSE returned[Len(returned)].hashchain.self[1]

\* C18: every step that is a finalize, or that changes the head file, leaves
\* in the head file exactly the hashchain.self of the event recorded last
\* (GENESIS_HASH if none was) and changes neither the log, nor what the file
\* object holds, nor the running hash.
C18_FinalizeWritesHead ==
    [][(Finalize \/ head_file' # head_file) =>
          /\ head_file' = Some(LastSelf)
          /\ events_file' = events_file
          /\ fh_buffer' = fh_buffer
          /\ prev_hash' = prev_hash
          /\ returned' = returned]_vars

\* finalize after two recorded events: the head is the second one's self.
C18_Witness ==
    /\ Len(returned) = 2
    /\ head_file = Some(returned[2].hashchain.self[1])
    /\ head_file # Some(returned[1].hashchain.self[1])
    /\ prev_hash = head_file[1]

\* json.loads of a log line, as far as get_payload reads it.
ParsedLine(line) == [payload_ref |-> line[4]]

\* The lines record() has written: flushed, or still in the file object.
WrittenLines == events_file \o fh_buffer

\* C19: every stored event recorded with payload_bytes carries the ref of
\* those bytes as payload_ref, its hashchain.self covers that ref, and
\* get_payload on it, as returned or as read back from the log, returns
\* exactly those bytes; the bytes are in the store by the time the line is
\* written, also when the call then fails; a stored event without a
\* payload_ref gives get_payload nothing.
C19_PayloadStoredFirst ==
    /\ \A i \in 1..Len(returned) :
           IF returned[i].payload_ref = None
           THEN get_payload(fs, returned[i]) = ReturnedNone
           ELSE /\ \E b \in Payloads :
                      /\ returned[i].payload_ref = Some(ArtifactRef(b))
                      /\ get_payload(fs, returned[i]) = ReturnedBytes(b)
                /\ returned[i].hashchain.self #
                       Some(Rehash([returned[i] EXCEPT !.payload_ref = None], None))
    /\ \A i \in 1..Len(WrittenLines) :
           IF WrittenLines[i][4] = None
           THEN get_payload(fs, ParsedLine(WrittenLines[i])) = ReturnedNone
           ELSE \E b \in Payloads :
                    /\ WrittenLines[i][4] = Some(ArtifactRef(b))
                    /\ get_payload(fs, ParsedLine(WrittenLines[i])) = ReturnedBytes(b)

\* An event recorded without payload, then one with: get_payload gives
\* nothing for the first and the two chunks for the second.
C19_Witness ==
    /\ Len(returned) = 2
    /\ returned[1].payload_ref = None
    /\ get_payload(fs, returned[1]) = ReturnedNone
    /\ returned[2].payload_ref = Some(ArtifactRef(<<"a", "b">>))
    /\ get_payload(fs, returned[2]) = ReturnedBytes(<<"a", "b">>)
    /\ get_payload(fs, ParsedLine(events_file[2])) = ReturnedBytes(<<"a", "b">>)

\* The record file of `label` is there as a save that returned wrote it.
Whole(label) == records[label] # None /\ records[label][1].whole

\* The files the surface at `path` held when the record of `label` was saved.
SavedDir(label, path) == at_save[label][1][path][1]

\* In the directories dsk every file the surfaces of `label` held at save
\* time is at its name under its surface path with the bytes it had then.
AsSaved(dsk, label) ==
    \A path \in {records[label][1].surfaces[i].path :
                    i \in 1..Len(records[label][1].surfaces)} :
        at_save[label][1][path] # None =>
            /\ dsk[path] # None
            /\ \A n \in FileNames :
                   SavedDir(label, path)[n] # None =>
                       dsk[path][1][n] = SavedDir(label, path)[n]

\* C20: once a checkpoint is saved, whatever is then done to the files of
\* its surface, restore of that checkpoint succeeds and leaves every file
\* that existed at save time with the content it had at save time, at the
\* same name under the recorded surface path; so in the state a restore has
\* just left.
C20_RestoreGivesSavedContent ==
    \A label \in Labels :
        /\ Whole(label) =>
               LET out == restore(fs, disk, records, label) IN
               out.raised = "" /\ AsSaved(out.disk, label)
        /\ restored.label = label =>
               /\ (restored.raised = "") <=> Whole(label)
               /\ restored.raised = "" => AsSaved(disk, label)

\* Saved with file.txt = "hello"; the file then read "changed" and new.txt
\* had appeared; restore put "hello" back.
C20_Witness ==
    /\ restored.label = "step0"
    /\ restored.raised = ""
    /\ SavedDir("step0", "/ws")["file.txt"] = Some("hello")
    /\ SavedDir("step0", "/ws")["new.txt"] = None
    /\ restored.before[1]["/ws"][1]["file.txt"] = Some("changed")
    /\ restored.before[1]["/ws"][1]["new.txt"] # None
    /\ disk["/ws"][1]["file.txt"] = Some("hello")

\* The resolved path dest is the directory path or lies below it.
Beneath(dest, path) == dest = path \/ StartsWith(dest, path \o "/")

\* The archive has a member whose resolved destination is outside path.
Escapes(archive, path) ==
    \E m \in Members(archive) : ~Beneath(MemberPath(path, m[1]), realpath(path))

\* What the store gave for the i-th surface of the last restore call.
Fetched(i) == get_bytes(fs, restored.surfaces[i].artifact_ref)

\* The i-th surface of the last restore call has an archive restore can
\* read, and no member of it leaves the surface's path.
Extractable(i) ==
    /\ Fetched(i).raised = ""
    /\ Readable(Fetched(i).bytes[1])
    /\ ~Escapes(Fetched(i).bytes[1], restored.surfaces[i].path)

\* The files of a directory, none for a directory that is not there.
FilesOf(dir) == IF dir = None THEN EmptyFiles ELSE dir[1]

\* The paths of the first i surfaces of the last restore call.
PathsUpTo(i) == {restored.surfaces[j].path : j \in 1..i}

\* C21: when restore comes to a surface whose archive has a member that
\* resolves outside the surface's path, it raises ValueError, nothing is
\* written outside the directories of disk, every directory that is not the
\* path of this or an earlier surface is as restore found it, and no file of
\* this surface's directory has been written.
C21_AsClaimed ==
    \A i \in 1..Len(restored.surfaces) :
        LET path == restored.surfaces[i].path IN
        ( /\ \A j \in 1..(i - 1) : Extractable(j)
          /\ Fetched(i).raised = ""
          /\ Readable(Fetched(i).bytes[1])
          /\ Escapes(Fetched(i).bytes[1], path) )
        => /\ restored.raised = "ValueError"
           /\ outside = {}
           /\ \A p \in DiskPaths \ PathsUpTo(i) : disk[p] = restored.before[1][p]
           /\ path \notin PathsUpTo(i - 1) =>
                  FilesOf(disk[path]) = FilesOf(restored.before[1][path])

\* C22: when a restore call has raised, the files of every directory are the
\* ones the call found.
C22_AsClaimed ==
    (restored.label # "" /\ restored.raised # "") =>
        \A p \in DiskPaths : FilesOf(disk[p]) = FilesOf(restored.before[1][p])

\* The last save call did not return: it raised or the process was stopped.
SaveFailed == saved.label # "" /\ (saved.raised # "" \/ saved.killed # "")

\* C23: every record file there is holds its whole text and names, for each
\* of its surfaces, a ref the store has a blob for, and after a save call
\* that returned it lists the surfaces the call was given; after a save call
\* that raised or was stopped the record file of its label is what it was
\* before the call, absent if it was absent.
C23_AsClaimed ==
    /\ \A label \in Labels :
           records[label] # None =>
               /\ records[label][1].whole
               /\ \A i \in 1..Len(records[label][1].surfaces) :
                      has(fs, records[label][1].surfaces[i].artifact_ref).found
    /\ (saved.label # "" /\ ~SaveFailed) =>
           /\ records[saved.label] # None
           /\ [i \in 1..Len(records[saved.label][1].surfaces) |->
                  [name |-> records[saved.label][1].surfaces[i].name,
                   path |-> records[saved.label][1].surfaces[i].path]] = saved.surfaces
    /\ SaveFailed => records[saved.label] = saved.before[1]

\* The document's version is the text "0.3".
VersionIsText03 ==
    /\ experiment[1].version # None
    /\ experiment[1].version[1].type = "str"
    /\ experiment[1].version[1].text = "0.3"

TrialFailed ==
    trials # <<>> /\ trials[Len(trials)].outcome # "ok"

\* C25: a trial that ends in a non-zero exit, without its output file, in a
\* hook stream violation or in a harness that does not exit within its bound
\* does not end the run: the call has not failed and is not left waiting, and
\* a call that is over has run every task x replication x variant combination
\* and written the attestation.
C25_AsClaimed ==
    /\ TrialFailed => run_pc \notin {"failed", "blocked"}
    /\ (run_pc \in {"done", "failed"} /\ trials # <<>>) =>
           /\ Len(trials) = Len(Combinations(tasks, experiment[1]))
           /\ attestation # None

\* C26: the attestation holds the digest in the run directory's digest file
\* and, for every trial of the run, an entry with the trial's id and the head
\* of its event log.
C26_AsClaimed ==
    attestation # None =>
        /\ attestation[1].resolved_experiment_digest = strip(run_dir[1].digest_file)
        /\ attestation[1].resolved_experiment_digest = <<ExperimentDigest(experiment[1])>>
        /\ \A i \in 1..Len(trials) :
               \E entry \in attestation[1].events_hashchain : entry.trial_id = i

\* C27: the lines of the log file, in file order, are one chain: the first
\* has prev = GENESIS_HASH and every later one has prev equal to the self of
\* the line before it.
C27_AsClaimed ==
    \A i \in 1..Len(events_file) :
        events_file[i][2] =
            IF i = 1 THEN GENESIS_HASH ELSE events_file[i - 1][3][1]

\* hashchain.self of the last line of the log file, GENESIS_HASH for a log
\* with no line.
LastLineSelf ==
    IF events_file = <<>> THEN GENESIS_HASH
    ELSE events_file[Len(events_file)][3][1]

\* C28: from the moment the head file is written it holds the self of the
\* last line of the log.
C28_AsClaimed == head_file # None => head_file[1] = LastLineSelf

\* -------------------------------------------------------- specifications
\* The step events of the accepted stream, as <<event_type, step_index>>.
StepShape ==
    LET IsStepEvent(s) == s[1] \in StepEventTypes IN SelectSeq(Shape, IsStepEvent)

\* C29 (as claimed): in every stream collect() accepts, the step events are
\* whole triples start(k), end(k), control_ack(k): starts and ends alternate
\* beginning with a start, no step has two ends, and every step contributes
\* exactly one start, one end and one acknowledgement in that order.
C29_AsClaimed ==
    status = "accepted" =>
        /\ Len(StepShape) % 3 = 0
        /\ \A i \in 1..Len(StepShape) :
            /\ StepShape[i][1] = <<STEP_START, STEP_END, CONTROL_ACK>>[((i - 1) % 3) + 1]
            /\ StepShape[i][2] = StepShape[3 * ((i - 1) \div 3) + 1][2]
        /\ \A i, j \in 1..Len(StepShape) :
            i < j /\ StepShape[i][1] = STEP_START /\ StepShape[j][1] = STEP_START
                => StepShape[i][2] # StepShape[j][2]

\* The file n of the surface at path is a member of an archive the record's
\* surfaces name for that path.
InArchive(entries, path, n) ==
    \E i \in 1..Len(entries) :
        /\ entries[i].path = path
        /\ LET got == get_bytes(fs, entries[i].artifact_ref) IN
           /\ got.raised = ""
           /\ Readable(got.bytes[1])
           /\ \E m \in Members(got.bytes[1]) : MemberPath(path, m[1]) = path \o "/" \o n

\* C30: a restore of a saved checkpoint leaves the record files and the
\* artifact store as they are; on disk it changes nothing but the surface
\* directories of the record, and in them only files that are members of the
\* record's archives, so a file created after the save keeps its content; and
\* a second restore of the same checkpoint changes nothing the first left.
C30_RestoreFrame ==
    [][Restore =>
        LET label == restored'.label
            entries == restored'.surfaces
            again == restore(fs', disk', records', label)
        IN  /\ records' = records
            /\ fs' = fs
            /\ \A path \in DiskPaths :
                /\ disk'[path] # disk[path] => \E i \in 1..Len(entries) : entries[i].path = path
                /\ disk[path] # None =>
                    /\ disk'[path] # None
                    /\ \A n \in FileNames :
                        \/ disk'[path][1][n] = disk[path][1][n]
                        \/ InArchive(entries, path, n)
                /\ Whole(label) /\ disk[path] # None /\ at_save[label][1][path] # None =>
                    \A n \in FileNames :
                        SavedDir(label, path)[n] = None => disk'[path][1][n] = disk[path][1][n]
            /\ again.disk = disk'
            /\ again.raised = restored'.raised]_vars

\* Saved with file.txt = "hello" and no new.txt; new.txt was then created and
\* file.txt changed; the restore put "hello" back and left new.txt as it was.
C30_Witness ==
    /\ restored.label = "step0"
    /\ restored.raised = ""
    /\ SavedDir("step0", "/ws")["file.txt"] = Some("hello")
    /\ SavedDir("step0", "/ws")["new.txt"] = None
    /\ restored.before[1]["/ws"][1]["file.txt"] = Some("changed")
    /\ restored.before[1]["/ws"][1]["new.txt"] = Some("changed")
    /\ disk["/ws"][1]["file.txt"] = Some("hello")
    /\ disk["/ws"][1]["new.txt"] = Some("changed")

Init == HookInit /\ RecInit /\ StoreInit /\ CkptInit /\ RunInit

HookNext == ReadLine \/ EndOfStream

HookSpec == Init /\ [][HookNext]_vars

RecorderNext == Record \/ Finalize \/ Close

RecorderSpec == Init /\ [][RecorderNext]_vars

\* One log file and the recorders constructed on it, one after another.
LogNext == Record \/ Finalize \/ Close \/ Construct

LogSpec == Init /\ [][LogNext]_vars

StoreNext ==
    \/ PutCall \/ PutExists \/ PutOpen \/ PutWrite \/ PutReplace \/ PutReturn
    \/ Crash \/ GetBytes \/ Has

StoreSpec == Init /\ [][StoreNext]_vars

CheckpointNext == Save \/ MakeSurface \/ WriteFile \/ RemoveFile \/ Restore

CheckpointSpec == Init /\ [][CheckpointNext]_vars

\* restore on record files and archives that no save wrote.
CraftedNext == MakeSurface \/ WriteFile \/ PutArchive \/ RestoreCrafted

CraftedSpec == Init /\ [][CraftedNext]_vars

RunNext ==
    \/ RunCall \/ ResolveVersion \/ ResolveDataset \/ ResolveHarness \/ Validate
    \/ Prepare \/ RunTrial \/ Attest

RunSpec == Init /\ [][RunNext]_vars

====
